---- MODULE Spec2Model ----
(***************************************************************************)
(* DNS-IP-TRACKER (src/app.py): a Flask service that resolves a domain,   *)
(* enriches the address with geolocation, appends the lookup to a SQLite  *)
(* table and serves the lookup history.                                   *)
(*                                                                         *)
(* Strings that the code takes apart (the domain input) are sequences of  *)
(* one-character strings; strings it only passes along (ip address, geo   *)
(* fields, messages) are TLA+ strings.                                    *)
(***************************************************************************)
EXTENDS Integers, Sequences, FiniteSets, TLC

VARIABLES
    tableExists,  \* whether lookup_history exists in dns_lookup_history.db
    rows,         \* the rows of lookup_history, in insertion (id) order
    clock,        \* wall clock (UTC), in seconds
    tzOffset,     \* offset of the host's local time from UTC, in seconds
    last          \* the last request handled: its inputs, the calls it made, its response

vars == <<tableExists, rows, clock, tzOffset, last>>

\* ---------------------------------------------------------------- bounds

\* Most rows the table holds under Spec.
MaxRows == 1
\* Most rows the table holds under HistSpec.
MaxHistRows == 3
\* The clock runs from 0 to MaxClock seconds.
MaxClock == 1
\* Most seconds that pass between response assembly and the INSERT.
MaxDelay == 1
\* Most pieces concatenated into a raw input of NormSpec.
MaxPieces == 3

\* ---------------------------------------------------------------- strings

HTTP == <<"h", "t", "t", "p", ":", "/", "/">>
HTTPS == <<"h", "t", "t", "p", "s", ":", "/", "/">>

\* Python's None.
None == "None"

\* str.strip() removes these from both ends.
Whitespace == {" ", "\t"}

UpperChars == <<"A", "B", "C", "H", "P", "S", "T">>
LowerChars == <<"a", "b", "c", "h", "p", "s", "t">>

\* str.lower() on one character.
LowerChar(c) ==
    IF \E i \in 1..Len(UpperChars) : UpperChars[i] = c
    THEN LowerChars[CHOOSE i \in 1..Len(UpperChars) : UpperChars[i] = c]
    ELSE c

\* str.lower()
Lower(s) == [i \in 1..Len(s) |-> LowerChar(s[i])]

RECURSIVE LStrip(_)
LStrip(s) ==
    IF s # <<>> /\ Head(s) \in Whitespace THEN LStrip(Tail(s)) ELSE s

RECURSIVE RStrip(_)
RStrip(s) ==
    IF s # <<>> /\ s[Len(s)] \in Whitespace
    THEN RStrip(SubSeq(s, 1, Len(s) - 1))
    ELSE s

\* str.strip()
Strip(s) == RStrip(LStrip(s))

\* s.startswith(p)
StartsWith(s, p) == Len(p) <= Len(s) /\ SubSeq(s, 1, Len(p)) = p

\* s.replace(old, ''): every non-overlapping occurrence, scanning left to right.
RECURSIVE ReplaceWithEmpty(_, _)
ReplaceWithEmpty(s, old) ==
    IF Len(s) < Len(old) THEN s
    ELSE IF StartsWith(s, old)
         THEN ReplaceWithEmpty(SubSeq(s, Len(old) + 1, Len(s)), old)
         ELSE <<Head(s)>> \o ReplaceWithEmpty(Tail(s), old)

\* s.split('/')[0]: the text before the first '/'.
RECURSIVE SplitFirst(_)
SplitFirst(s) ==
    IF s = <<>> \/ Head(s) = "/" THEN <<>>
    ELSE <<Head(s)>> \o SplitFirst(Tail(s))

\* domain.replace('http://', '').replace('https://', '').split('/')[0]
StripProtocolAndPath(domain) ==
    SplitFirst(ReplaceWithEmpty(ReplaceWithEmpty(domain, HTTP), HTTPS))

\* domain_name.strip().lower()
TrimLower(raw) == Lower(Strip(raw))

\* ---------------------------------------------------------------- time

\* SQLite's CURRENT_TIMESTAMP: 'YYYY-MM-DD HH:MM:SS', in UTC, at the moment of the INSERT.
CURRENT_TIMESTAMP(t) == [sec |-> t, suffix |-> ""]

\* datetime.now(): the host's local time.
DatetimeNow(t) == t + tzOffset

\* now.strftime('%Y-%m-%d %H:%M:%S' + suffix)
Strftime(now, suffix) == [sec |-> now, suffix |-> suffix]

\* ---------------------------------------------------------------- resolver adapter

\* TTL reported when dnspython is not importable and socket.gethostbyname answers.
DefaultTTL == 300

\* What the network does to one resolution: the library in use (dnspython, or
\* socket.gethostbyname when the import fails), and whether it answers or raises
\* (NXDOMAIN, timeout, malformed name). msg is str(e): the exceptions of
\* dns.resolver and of socket all carry a non-empty message.
ResolverAnswers ==
    { [lib |-> "dnspython", raises |-> FALSE, ip |-> "93.184.216.34", ttl |-> 60, msg |-> ""],
      [lib |-> "socket", raises |-> FALSE, ip |-> "93.184.216.34", ttl |-> 0, msg |-> ""] }
ResolverFailures ==
    { [lib |-> "dnspython", raises |-> TRUE, ip |-> "", ttl |-> 0, msg |-> "NXDOMAIN"],
      [lib |-> "socket", raises |-> TRUE, ip |-> "", ttl |-> 0, msg |-> "Name or service not known"] }
ResolverOutcomes == ResolverAnswers \cup ResolverFailures

get_dns_info(domain, o) ==
    IF o.raises
    THEN [ip_address |-> None, ttl |-> None, error |-> o.msg]
    ELSE IF o.lib = "dnspython"
         THEN [ip_address |-> o.ip, ttl |-> o.ttl, error |-> None]
         ELSE [ip_address |-> o.ip, ttl |-> DefaultTTL, error |-> None]

\* Python truthiness of dns_info['error'] (None or a string).
Truthy(x) == x # None /\ x # ""

\* Mutant: the error check forgotten.
ResolutionFailed_Unchecked(dns_info) == FALSE

\* if dns_info['error']:
ResolutionFailed(dns_info) == Truthy(dns_info.error)

\* ---------------------------------------------------------------- geolocation client

\* JSON objects are functions from a set of keys to strings (None for null).
\* A located address: 'region' is null and 'org' is missing.
GeoFull ==
    [k \in {"country_name", "city", "region"} |->
        CASE k = "country_name" -> "United States"
          [] k = "city" -> "Norwell"
          [] OTHER -> None]
GeoErrorObject == [k \in {"reason"} |-> "Reserved IP Address"]
NoJson == [k \in {} |-> ""]

\* What ipapi.co does to one call: requests.get raises (kind "timeout",
\* "network_error"), or a response arrives with a status code and a body that is
\* a JSON object, a JSON value that is no object, or no JSON at all.
GeoOutcomes ==
    { [kind |-> "response", status |-> 200, parse |-> "object", json |-> GeoFull],
      [kind |-> "response", status |-> 200, parse |-> "object", json |-> GeoErrorObject],
      [kind |-> "response", status |-> 200, parse |-> "array", json |-> NoJson],
      [kind |-> "response", status |-> 200, parse |-> "invalid", json |-> NoJson],
      [kind |-> "response", status |-> 429, parse |-> "object", json |-> GeoErrorObject],
      [kind |-> "timeout", status |-> 0, parse |-> "invalid", json |-> NoJson],
      [kind |-> "network_error", status |-> 0, parse |-> "invalid", json |-> NoJson] }

\* dict.get(key, default)
DictGet(d, key, default) == IF key \in DOMAIN d THEN d[key] ELSE default

\* Mutant: a failure branch that leaves 'isp' out of its defaults.
GeoUnknown_IspMissing(error) ==
    [country |-> "Unknown", city |-> "Unknown", region |-> "Unknown",
     isp |-> None, error |-> error]

\* The all-"Unknown" dict of the non-200 branch and of the except branch.
GeoUnknown(error) ==
    [country |-> "Unknown", city |-> "Unknown", region |-> "Unknown",
     isp |-> "Unknown", error |-> error]

get_geo_info(ip_address, o) ==
    IF o.kind # "response" THEN GeoUnknown(o.kind)                     \* requests.get raised
    ELSE IF o.status = 200
         THEN IF o.parse = "invalid" THEN GeoUnknown("JSONDecodeError") \* response.json() raised
              ELSE IF o.parse # "object" THEN GeoUnknown("AttributeError") \* data.get raised
              ELSE [country |-> DictGet(o.json, "country_name", "Unknown"),
                    city |-> DictGet(o.json, "city", "Unknown"),
                    region |-> DictGet(o.json, "region", "Unknown"),
                    isp |-> DictGet(o.json, "org", "Unknown"),
                    error |-> None]
         ELSE GeoUnknown("Geolocation service unavailable")

\* ---------------------------------------------------------------- history store

\* CREATE TABLE IF NOT EXISTS lookup_history: the table as init_db leaves it.
init_db == [tableExists |-> TRUE, rows |-> IF tableExists THEN rows ELSE <<>>]

\* What the storage does to one INSERT, the table existing: it is taken, or
\* sqlite3 raises OperationalError (database is locked).
StoreFaults == {"none", "locked"}

\* Mutant: city and region bound to each other's columns.
InsertedRow_ColumnsSwapped(domain, dns_info, geo_info, insertTime) ==
    [id |-> Len(rows) + 1,
     domain |-> domain,
     ip_address |-> dns_info.ip_address,
     country |-> geo_info.country,
     city |-> geo_info.region,
     region |-> geo_info.city,
     isp |-> geo_info.isp,
     ttl |-> dns_info.ttl,
     lookup_time |-> CURRENT_TIMESTAMP(insertTime)]

\* The INSERT names seven columns; id is AUTOINCREMENT and lookup_time takes its
\* DEFAULT CURRENT_TIMESTAMP, evaluated at the second the INSERT runs.
InsertedRow(domain, dns_info, geo_info, insertTime) ==
    [id |-> Len(rows) + 1,
     domain |-> domain,
     ip_address |-> dns_info.ip_address,
     country |-> geo_info.country,
     city |-> geo_info.city,
     region |-> geo_info.region,
     isp |-> geo_info.isp,
     ttl |-> dns_info.ttl,
     lookup_time |-> CURRENT_TIMESTAMP(insertTime)]

\* Mutant: no except clause, so a storage error leaves the function as an exception.
save_lookup_history_Raising(domain, dns_info, geo_info, fault, insertTime) ==
    IF tableExists /\ fault = "none"
    THEN [returned |-> TRUE, raised |-> FALSE,
          rows |-> Append(rows, InsertedRow(domain, dns_info, geo_info, insertTime))]
    ELSE [returned |-> FALSE, raised |-> TRUE, rows |-> rows]

\* The function's outcome: its return value, whether an exception left it, and
\* the table afterwards.
save_lookup_history(domain, dns_info, geo_info, fault, insertTime) ==
    IF tableExists /\ fault = "none"
    THEN [returned |-> TRUE, raised |-> FALSE,
          rows |-> Append(rows, InsertedRow(domain, dns_info, geo_info, insertTime))]
    ELSE [returned |-> FALSE, raised |-> FALSE, rows |-> rows]          \* except Exception

\* ---------------------------------------------------------------- requests

\* Raw domain inputs of the service specifications: empty, blank, a bare protocol,
\* and a host to trim and lowercase. (NormSpec covers normalisation on its own,
\* over many more inputs.)
RawInputs == { <<>>, <<" ">>, HTTP, <<" ", "A">> }

\* Bodies of POST /api/lookup as request.get_json() returns them: an object with
\* or without the key 'domain', or None.
PostRequests ==
    { [json |-> "object", hasDomain |-> TRUE, domain |-> r] : r \in RawInputs }
    \cup { [json |-> "object", hasDomain |-> FALSE, domain |-> <<>>],
           [json |-> "null", hasDomain |-> FALSE, domain |-> <<>>] }

\* Before the first request of a process.
NoRequest ==
    [op |-> "none", raw |-> <<>>, domain |-> <<>>, resolverCalls |-> <<>>,
     resolved |-> "none", geoCalls |-> 0, geoFailed |-> FALSE, appendAttempts |-> 0,
     fault |-> "none", saved |-> FALSE, status |-> 0, body |-> <<>>, limit |-> 0,
     ids |-> <<>>, noJson |-> FALSE, rowsBefore |-> <<>>]

\* The log of a request that ended before the resolver was called.
Rejected(op, raw, domain, status, body) ==
    [NoRequest EXCEPT !.op = op, !.raw = raw, !.domain = domain, !.status = status,
                      !.body = body, !.rowsBefore = rows]

\* The result dict of dns_lookup (flat) and of get_domain_info (nested location,
\* ' UTC' appended to the format), stamped with datetime.now() at time t.
ResultBody(op, domain, dns_info, geo_info, t) ==
    IF op = "lookup"
    THEN [domain |-> domain, ip_address |-> dns_info.ip_address, ttl |-> dns_info.ttl,
          country |-> geo_info.country, city |-> geo_info.city,
          region |-> geo_info.region, isp |-> geo_info.isp,
          lookup_time |-> Strftime(DatetimeNow(t), "")]
    ELSE [domain |-> domain, ip_address |-> dns_info.ip_address, ttl |-> dns_info.ttl,
          location |-> [country |-> geo_info.country, city |-> geo_info.city,
                        region |-> geo_info.region],
          isp |-> geo_info.isp,
          lookup_time |-> Strftime(DatetimeNow(t), " UTC")]

\* A handler's step that leaves the table and the clock alone.
Answer(log) ==
    /\ last' = log
    /\ UNCHANGED <<tableExists, rows, clock, tzOffset>>

\* if dns_info['error']: return jsonify({'error': ..., 'domain': domain}), 400
ResolutionError(op, raw, domain, dns_info) ==
    [Rejected(op, raw, domain, 400,
              [error |-> <<"DNS lookup failed: ", dns_info.error>>, domain |-> domain])
        EXCEPT !.resolverCalls = <<domain>>, !.resolved = "fail"]

\* The log of a request that went on past the resolver: geolocation is called,
\* the result is assembled, save_lookup_history is called, and the result is
\* returned unless an exception reaches the handler's except clause.
Completed(op, raw, domain, ro, geo_info, fault, result, save) ==
    [Rejected(op, raw, domain,
              IF save.raised THEN 500 ELSE 200,
              IF save.raised THEN [error |-> <<"Server error: ", "OperationalError">>]
              ELSE result)
        EXCEPT !.resolverCalls = <<domain>>,
               !.resolved = IF ro.raises THEN "fail" ELSE "ok",
               !.geoCalls = 1,
               !.geoFailed = (geo_info.error # None),
               !.appendAttempts = 1,
               !.fault = fault,
               !.saved = save.returned]

\* The part the two lookup endpoints share, from get_dns_info to the return.
\* ros, gos and faults are what the resolver, ipapi.co and the storage may do;
\* delay is the time from response assembly to the INSERT (when no INSERT runs,
\* the passing of time is left to Tick).
Orchestrate(op, raw, domain, ros, gos, faults, cap) ==
    \E ro \in ros :
        LET dns_info == get_dns_info(domain, ro)
        IN  IF ResolutionFailed(dns_info)
            THEN Answer(ResolutionError(op, raw, domain, dns_info))
            ELSE \E go \in gos, fault \in faults :
                 \E delay \in (IF tableExists /\ fault = "none" THEN 0..MaxDelay ELSE {0}) :
                    LET geo_info == get_geo_info(dns_info.ip_address, go)
                        result == ResultBody(op, domain, dns_info, geo_info, clock)
                        save == save_lookup_history(domain, dns_info, geo_info, fault,
                                                    clock + delay)
                    IN  /\ Len(save.rows) <= cap
                        /\ clock + delay <= MaxClock
                        /\ last' = Completed(op, raw, domain, ro, geo_info, fault, result, save)
                        /\ rows' = save.rows
                        /\ clock' = clock + delay
                        /\ UNCHANGED <<tableExists, tzOffset>>

\* POST /api/lookup, under an environment
PostLookup(reqs, ros, gos, faults, cap) ==
    \E req \in reqs :
        IF req.json # "object"
        THEN \* data.get on None raises AttributeError: the outer except answers 500
             Answer([Rejected("lookup", req.domain, <<>>, 500,
                              [error |-> <<"Server error: ", "AttributeError">>])
                        EXCEPT !.noJson = TRUE])
        ELSE LET domain == TrimLower(IF req.hasDomain THEN req.domain ELSE <<>>)
             IN  IF domain = <<>>
                 THEN Answer(Rejected("lookup", req.domain, domain, 400,
                                      [error |-> <<"Domain name is required">>]))
                 ELSE Orchestrate("lookup", req.domain, StripProtocolAndPath(domain),
                                  ros, gos, faults, cap)

\* POST /api/lookup
dns_lookup ==
    PostLookup(PostRequests, ResolverOutcomes, GeoOutcomes, StoreFaults, MaxRows)

\* GET /api/domain/<domain_name>: Flask's default converter accepts any non-empty
\* text without '/'.
Routable(r) == r # <<>> /\ \A i \in 1..Len(r) : r[i] # "/"
DomainNames == { r \in RawInputs : Routable(r) }

\* GET /api/domain/<domain_name>, under an environment
GetDomain(names, ros, gos, faults, cap) ==
    \E domain_name \in names :
        Orchestrate("domain", domain_name, StripProtocolAndPath(TrimLower(domain_name)),
                    ros, gos, faults, cap)

\* GET /api/domain/<domain_name>
get_domain_info ==
    GetDomain(DomainNames, ResolverOutcomes, GeoOutcomes, StoreFaults, MaxRows)

\* ---------------------------------------------------------------- history query

\* limit of GET /api/history when the parameter is absent or no integer.
DefaultLimit == 50

\* The query string: no limit parameter, or an integer.
LimitArgs ==
    { [given |-> FALSE, value |-> 0] }
    \cup { [given |-> TRUE, value |-> v] : v \in (0 - 1)..(MaxHistRows + 1) }

\* request.args.get('limit', 50, type=int)
LimitOf(arg) == IF arg.given THEN arg.value ELSE DefaultLimit

\* ORDER BY lookup_time DESC: the orders of the row ids SQLite may produce. The
\* timestamps are text of one format, so text order is time order; rows with equal
\* lookup_time come in an order the query does not fix.
OrderByLookupTimeDesc ==
    { p \in [1..Len(rows) -> 1..Len(rows)] :
        /\ \A i, j \in 1..Len(rows) : i # j => p[i] # p[j]
        /\ \A i, j \in 1..Len(rows) :
            i < j => rows[p[i]].lookup_time.sec >= rows[p[j]].lookup_time.sec }

\* Mutant: a limit that is off by one.
SqlLimit_OffByOne(seq, limit) ==
    IF limit < 0 \/ limit + 1 >= Len(seq) THEN seq ELSE SubSeq(seq, 1, limit + 1)

\* LIMIT ?: SQLite takes a negative limit as no limit.
SqlLimit(seq, limit) ==
    IF limit < 0 \/ limit >= Len(seq) THEN seq ELSE SubSeq(seq, 1, limit)

\* One entry of the 'history' list.
HistoryEntry(row) ==
    [domain |-> row.domain, ip_address |-> row.ip_address, country |-> row.country,
     city |-> row.city, region |-> row.region, isp |-> row.isp, ttl |-> row.ttl,
     lookup_time |-> row.lookup_time]

\* GET /api/history
get_history ==
    \E arg \in LimitArgs :
        IF tableExists
        THEN \E order \in OrderByLookupTimeDesc :
                LET ids == SqlLimit(order, LimitOf(arg))
                IN  Answer([NoRequest EXCEPT
                               !.op = "history", !.status = 200, !.limit = LimitOf(arg),
                               !.ids = ids,
                               !.body = [i \in 1..Len(ids) |-> HistoryEntry(rows[ids[i]])],
                               !.rowsBefore = rows])
        ELSE \* no such table: lookup_history
             Answer([NoRequest EXCEPT
                        !.op = "history", !.status = 500, !.limit = LimitOf(arg),
                        !.body = [error |-> <<"Failed to retrieve history: ", "OperationalError">>],
                        !.rowsBefore = rows])

\* ---------------------------------------------------------------- process and time

\* "main": python app.py; "module": app imported by a WSGI server.
StartModes == {"main", "module"}
TzOffsets == {0, 3600}

\* The process starts again on the same database file: init_db runs only under
\* if __name__ == '__main__'.
Start ==
    \E m \in StartModes :
        /\ tableExists' = IF m = "main" THEN init_db.tableExists ELSE tableExists
        /\ rows' = IF m = "main" THEN init_db.rows ELSE rows
        /\ last' = NoRequest
        /\ UNCHANGED <<clock, tzOffset>>

\* Time passes.
Tick ==
    /\ clock < MaxClock
    /\ clock' = clock + 1
    /\ UNCHANGED <<tableExists, rows, tzOffset, last>>

\* A first start, in either mode, on a host with no database file.
Init ==
    /\ \E m \in StartModes : tableExists = (m = "main")
    /\ rows = <<>>
    /\ clock = 0
    /\ tzOffset \in TzOffsets
    /\ last = NoRequest

Next ==
    \/ dns_lookup
    \/ get_domain_info
    \/ get_history
    \/ Start
    \/ Tick

Spec == Init /\ [][Next]_vars

\* ---------------------------------------------------------------- history specification

\* The service with a healthy environment (the table exists, every resolution
\* and geolocation answers, every INSERT is taken), so that the table fills up
\* to MaxHistRows rows that differ in ttl and lookup_time.
HistRequests == { [json |-> "object", hasDomain |-> TRUE, domain |-> <<" ", "A">>] }
HistGeo == { o \in GeoOutcomes : o.json = GeoFull }

HistLookup == PostLookup(HistRequests, ResolverAnswers, HistGeo, {"none"}, MaxHistRows)

HistInit == Init /\ tableExists /\ tzOffset = 0

HistNext ==
    \/ HistLookup
    \/ get_history
    \/ Tick

HistSpec == HistInit /\ [][HistNext]_vars

\* ---------------------------------------------------------------- normalisation specification

\* Raw inputs are concatenations of at most MaxPieces of these pieces.
Pieces ==
    { HTTP, HTTPS, <<"a">>, <<"B">>, <<"/">>, <<" ">>, <<".", "c">>,
      <<"h", "t">>, <<"t", "p", ":", "/", "/">> }

RECURSIVE Concats(_)
Concats(n) ==
    IF n = 0 THEN { <<>> }
    ELSE LET shorter == Concats(n - 1)
         IN  shorter \cup { s \o p : s \in shorter, p \in Pieces }

NormInputs == Concats(MaxPieces)

\* One request is in flight, carrying a raw input; either endpoint takes it, and
\* the resolver fails, so that the request ends there.
NormInit ==
    /\ tableExists = TRUE
    /\ rows = <<>>
    /\ clock = 0
    /\ tzOffset = 0
    /\ \E r \in NormInputs : last = [NoRequest EXCEPT !.raw = r]

NormPost ==
    /\ last.op = "none"
    /\ PostLookup({ [json |-> "object", hasDomain |-> TRUE, domain |-> last.raw] },
                  ResolverFailures, GeoOutcomes, StoreFaults, MaxRows)

NormGet ==
    /\ last.op = "none"
    /\ Routable(last.raw)
    /\ GetDomain({ last.raw }, ResolverFailures, GeoOutcomes, StoreFaults, MaxRows)

NormNext ==
    \/ NormPost
    \/ NormGet

NormSpec == NormInit /\ [][NormNext]_vars

\* ---------------------------------------------------------------- claims

LookupOps == {"lookup", "domain"}

Min(a, b) == IF a <= b THEN a ELSE b

\* The row appended last.
NewestRow == rows[Len(rows)]

\* The four geo fields of a lookup response, whichever its shape.
BodyGeo(op, body) ==
    IF op = "lookup"
    THEN [country |-> body.country, city |-> body.city, region |-> body.region,
          isp |-> body.isp]
    ELSE [country |-> body.location.country, city |-> body.location.city,
          region |-> body.location.region, isp |-> body.isp]

RowGeo(row) ==
    [country |-> row.country, city |-> row.city, region |-> row.region, isp |-> row.isp]

AllUnknown ==
    [country |-> "Unknown", city |-> "Unknown", region |-> "Unknown", isp |-> "Unknown"]

\* The last request appended exactly one row to the table it found.
AppendedOne == Len(rows) = Len(last.rowsBefore) + 1
               /\ SubSeq(rows, 1, Len(rows) - 1) = last.rowsBefore

\* The reference normalisation of the specification: trim, lowercase, remove one
\* leading 'http://' or 'https://', truncate at the first '/'.
RefNormalize(raw) ==
    LET t == TrimLower(raw)
        u == IF StartsWith(t, HTTP) THEN SubSeq(t, Len(HTTP) + 1, Len(t))
             ELSE IF StartsWith(t, HTTPS) THEN SubSeq(t, Len(HTTPS) + 1, Len(t))
             ELSE t
    IN  SplitFirst(u)

\* C1: on both lookup endpoints, a request whose resolution fails ends with
\* HTTP 400, calls the geolocation client not at all, attempts no history append,
\* and leaves the rows of the table exactly as they were.
C1_ResolutionFailureHasNoEffect ==
    (last.op \in LookupOps /\ last.resolved = "fail")
        => /\ last.status = 400
           /\ last.geoCalls = 0
           /\ last.appendAttempts = 0
           /\ rows = last.rowsBefore

\* C1 witness: a resolution failure on a table that already holds a row.
C1_Witness ==
    /\ last.op \in LookupOps
    /\ last.resolved = "fail"
    /\ Len(rows) >= 1

\* C2: a lookup whose resolution succeeds attempts exactly one append, whatever
\* geolocation did; when the store takes it, the table grows by exactly one row,
\* which carries the normalised domain, the resolved ip_address and ttl, and the
\* geo fields of the response.
C2_OneAppendPerResolvedLookup ==
    (last.op \in LookupOps /\ last.resolved = "ok")
        => /\ last.appendAttempts = 1
           /\ last.saved
                => /\ last.status = 200
                   /\ AppendedOne
                   /\ NewestRow.domain = last.domain
                   /\ NewestRow.domain = last.body.domain
                   /\ NewestRow.ip_address = last.body.ip_address
                   /\ NewestRow.ttl = last.body.ttl
                   /\ RowGeo(NewestRow) = BodyGeo(last.op, last.body)
           /\ ~last.saved => rows = last.rowsBefore

\* C2 witness: a located lookup whose row was stored.
C2_Witness ==
    /\ last.op \in LookupOps
    /\ last.resolved = "ok"
    /\ last.saved
    /\ ~last.geoFailed
    /\ NewestRow.city = "Norwell"

\* C3: a raw input whose normalised form is empty is answered 400 before any
\* network call: the resolver is not invoked, geolocation is not called, and no
\* row is added; on both lookup endpoints.
C3_EmptyDomainRejectedBeforeNetwork ==
    (last.op \in LookupOps /\ ~last.noJson /\ RefNormalize(last.raw) = <<>>)
        => /\ last.status = 400
           /\ last.resolverCalls = <<>>
           /\ last.geoCalls = 0
           /\ rows = last.rowsBefore

\* C4: the lookup_time stored in a lookup's history row equals the lookup_time
\* of its response.
C4_StoredTimeIsResponseTime ==
    (last.op \in LookupOps /\ last.saved)
        => NewestRow.lookup_time = last.body.lookup_time

\* C5: a history query with limit >= 1 returns the record appended last as its
\* first element, also when earlier records carry the same second.
C5_NewestRecordFirst ==
    (last.op = "history" /\ last.status = 200 /\ last.limit >= 1 /\ Len(rows) >= 1)
        => last.body[1] = HistoryEntry(NewestRow)

\* C6: a geolocation failure on a resolved lookup gives no error response: HTTP
\* 200 with the resolved ip_address and ttl and the four geo fields "Unknown";
\* the append is still attempted, and the row is stored, with the same fields,
\* whenever the storage takes the INSERT.
C6_GeoFailureDegradesToUnknown ==
    (last.op \in LookupOps /\ last.geoFailed)
        => /\ last.status = 200
           /\ \E o \in ResolverAnswers :
                /\ last.body.ip_address = get_dns_info(last.domain, o).ip_address
                /\ last.body.ttl = get_dns_info(last.domain, o).ttl
           /\ BodyGeo(last.op, last.body) = AllUnknown
           /\ last.appendAttempts = 1
           /\ last.saved <=> (tableExists /\ last.fault = "none")
           /\ last.saved => (AppendedOne /\ RowGeo(NewestRow) = AllUnknown)

\* C6 witness: geolocation failed and the row was stored.
C6_Witness ==
    /\ last.op \in LookupOps
    /\ last.geoFailed
    /\ last.saved

\* The responses a lookup of this domain on this endpoint gives when its append
\* succeeds: the result assembled, up to now, from a resolver answer and a
\* geolocation outcome.
ResultBodies(op, domain) ==
    { ResultBody(op, domain, get_dns_info(domain, ro),
                 get_geo_info(get_dns_info(domain, ro).ip_address, go), t) :
        ro \in ResolverAnswers, go \in GeoOutcomes, t \in 0..clock }

\* C7: a failed append is not surfaced: a resolved lookup whose append failed is
\* answered 200 with a body a successful append would have been answered with,
\* and the append reported the failure by returning false, not by raising.
C7_AppendFailureNotSurfaced ==
    (last.op \in LookupOps /\ last.appendAttempts = 1)
        => /\ last.status = 200
           /\ last.body \in ResultBodies(last.op, last.domain)
           /\ (~tableExists \/ last.fault # "none") => ~last.saved

\* C7 witness: a resolved lookup whose INSERT failed on an existing table, after
\* one that was stored.
C7_Witness ==
    /\ last.op \in LookupOps
    /\ last.appendAttempts = 1
    /\ ~last.saved
    /\ last.fault = "locked"
    /\ tableExists
    /\ Len(rows) >= 1

\* C8: however the service was started, the table exists when an append or a
\* history query executes, so that the query succeeds.
C8_TableExistsOnFirstUse ==
    /\ last.appendAttempts > 0 => tableExists
    /\ last.op = "history" => (tableExists /\ last.status = 200)

\* C9: the domain the endpoints work with is the reference normalisation of the
\* raw input.
C9_NormalizationIsReference ==
    (last.op \in LookupOps /\ last.resolverCalls # <<>>)
        => last.domain = RefNormalize(last.raw)

\* The rows a history response holds are the rows of these ids, in this order.
BodyIsRowsOf(ids) ==
    /\ Len(last.body) = Len(ids)
    /\ \A i \in 1..Len(ids) : last.body[i] = HistoryEntry(rows[ids[i]])
    /\ \A i, j \in 1..Len(ids) : i # j => ids[i] # ids[j]

\* The ids are in descending lookup_time order and no row left out is more
\* recent than a row returned.
MostRecentDescending(ids) ==
    /\ \A i, j \in 1..Len(ids) :
        i < j => rows[ids[i]].lookup_time.sec >= rows[ids[j]].lookup_time.sec
    /\ \A i \in 1..Len(ids), r \in 1..Len(rows) :
        (\A j \in 1..Len(ids) : ids[j] # r)
            => rows[ids[i]].lookup_time.sec >= rows[r].lookup_time.sec

\* C10 as claimed: for every limit N, negative ones too, a history query returns
\* at most N records, the most recent ones in descending lookup_time order.
C10_AtMostLimitForEveryLimit ==
    (last.op = "history" /\ last.status = 200)
        => /\ Len(last.body) <= last.limit
           /\ BodyIsRowsOf(last.ids)
           /\ MostRecentDescending(last.ids)

\* C10 as amended: for every limit N >= 0 a history query returns min(N, number
\* of rows) records, the most recent ones in descending lookup_time order; a
\* negative limit returns every row, in that order.
C10_LimitNonNegativeOrUnlimited ==
    (last.op = "history" /\ last.status = 200)
        => /\ Len(last.body) = (IF last.limit < 0 THEN Len(rows)
                                ELSE Min(last.limit, Len(rows)))
           /\ BodyIsRowsOf(last.ids)
           /\ MostRecentDescending(last.ids)

\* C10 witness: a query that cuts a table whose rows differ in lookup_time.
C10_Witness ==
    /\ last.op = "history"
    /\ last.status = 200
    /\ last.limit >= 1
    /\ Len(last.body) = last.limit
    /\ Len(rows) > last.limit
    /\ rows[1].lookup_time # rows[Len(rows)].lookup_time

====
